---- MODULE Spec2Model ----
(***************************************************************************)
(* Email/password authentication service of stock_predictor's backend:     *)
(* the /register, /login, /me and /verify handlers of app/routes/auth.py   *)
(* over the MongoDB "User" collection reached through                      *)
(* app/utils/database.py.                                                  *)
(*                                                                         *)
(* Every handler is an `async def` that never awaits, so one server        *)
(* process runs one handler at a time; several server processes share the  *)
(* one collection, and their store calls interleave.  A process is an      *)
(* element of Procs; it has its own module globals `client` and `db`.      *)
(***************************************************************************)
EXTENDS Integers, Sequences, FiniteSets, TLC

\* ------------------------------------------------------------------ bounds
MaxUsers == 2
MaxClock == 2
MaxClients == 2

\* ------------------------------------------------------------------ inputs
Procs == {"w1", "w2"}
Emails == {"a@x.com", "b@x.com"}
Passwords == {"secret1", "wrong"}
Null == "<null>"
Names == {Null, "Ann"}
UrlWithDb == "mongodb+srv://cluster.example.net/stockdb"
UrlNoDb == "mongodb+srv://cluster.example.net/"

VARIABLES
    users,          \* the "User" collection, documents in natural (insertion) order
    nextOid,        \* the next ObjectId the driver generates on insert_one
    nextSalt,       \* the salt the next get_password_hash call draws (fresh per call)
    clock,          \* datetime.utcnow(), in whole ticks
    DATABASE_URL,   \* database.py: os.getenv("DATABASE_URL"), the same for every process
    client,         \* database.py global `client`, per process (0 is None)
    db,             \* database.py global `db`, per process (0 is None)
    constructed,    \* per process, the number of MongoClient objects constructed so far
    pc,             \* per process, the handler's position: "idle" or "reg_insert"
    req,            \* per process, the body of the /register being handled
    last,           \* the exchange completed most recently: what was asked, what
                    \* store calls it made, and the response the caller got
    issued          \* the token the caller holds: the one /register or /login returned last

vars == <<users, nextOid, nextSalt, clock, DATABASE_URL, client, db, constructed, pc, req, last, issued>>

\* ------------------------------------------------------------ bson.ObjectId
\* str(ObjectId): 24 lowercase hex digits, most significant first.
RECURSIVE HexDigit(_, _)
HexDigit(n, k) == IF k = 0 THEN n % 16 ELSE HexDigit(n \div 16, k - 1)

ObjectIdStr(oid) == [i \in 1..24 |-> HexDigit(oid, 24 - i)]

\* ObjectId(user_id): raises InvalidId unless user_id is 24 hex digits.
ObjectIdValid(s) == Len(s) = 24 /\ \A i \in 1..Len(s) : s[i] \in 0..15

RECURSIVE ObjectIdParse(_)
ObjectIdParse(s) ==
    IF Len(s) = 0 THEN 0
    ELSE 16 * ObjectIdParse(SubSeq(s, 1, Len(s) - 1)) + s[Len(s)]

\* -------------------------------------------------------- password hasher
\* A salted one-way digest; the digest term stands for bcrypt(salt, plaintext).
\* Every call draws a salt no earlier call drew.
get_password_hash(password, salt) ==
    [scheme |-> "bcrypt", salt |-> salt, hash |-> <<"H", salt, password>>]

verify_password(plain, digest) ==
    /\ digest.scheme = "bcrypt"
    /\ digest.hash = <<"H", digest.salt, plain>>

\* ------------------------------------------------------------ token issuer
SECRET_KEY == "server-secret"
ACCESS_TOKEN_EXPIRE_MINUTES == 1

Sign(key, sub, email, exp, iat) == <<"HS256", key, sub, email, exp, iat>>

create_access_token(data, expires_delta, now) ==
    [sub |-> data.sub, email |-> data.email, exp |-> now + expires_delta, iat |-> now,
     sig |-> Sign(SECRET_KEY, data.sub, data.email, now + expires_delta, now)]

MalformedToken == [raw |-> "not.a.jwt"]

Tamper(tok) == [tok EXCEPT !.email = "evil@x.com"]

\* decode: parse, then signature, then expiry.
decode_access_token(tok, now) ==
    IF DOMAIN tok # {"sub", "email", "exp", "iat", "sig"}
    THEN [ok |-> FALSE, error |-> "MalformedToken"]
    ELSE IF tok.sig # Sign(SECRET_KEY, tok.sub, tok.email, tok.exp, tok.iat)
    THEN [ok |-> FALSE, error |-> "InvalidSignature"]
    ELSE IF now > tok.exp
    THEN [ok |-> FALSE, error |-> "ExpiredToken"]
    ELSE [ok |-> TRUE, sub |-> tok.sub, email |-> tok.email]

\* The dependency of /me and /verify: the verified claims, or a 401.
get_current_user(tok, now) == decode_access_token(tok, now)

\* ---------------------------------------------------------------- responses
NoHeaders == {}
BearerChallenge == {<<"WWW-Authenticate", "Bearer">>}

Response(status, body, headers) == [status |-> status, body |-> body, headers |-> headers]

NoResponse == Response(0, [detail |-> "no response yet"], NoHeaders)

ValidationErrorResponse == Response(422, [detail |-> "validation error"], NoHeaders)

InternalServerError == Response(500, [detail |-> "Internal Server Error"], NoHeaders)

CredentialsResponse ==
    Response(401, [detail |-> "Could not validate credentials"], BearerChallenge)

EmailRegisteredResponse == Response(400, [detail |-> "Email already registered"], NoHeaders)

LoginNoUserResponse ==
    Response(401, [detail |-> "Incorrect email or password"], BearerChallenge)

\* LoginBadPasswordResponse with a message of its own for the wrong password.
LoginBadPasswordResponse_own_message ==
    Response(401, [detail |-> "Incorrect password"], BearerChallenge)

LoginBadPasswordResponse ==
    Response(401, [detail |-> "Incorrect email or password"], BearerChallenge)

UserNotFoundResponse == Response(404, [detail |-> "User not found"], NoHeaders)

TokenResponse(status, tok) ==
    Response(status, [access_token |-> tok, token_type |-> "bearer"], NoHeaders)

\* response_model=UserResponse keeps id, email, name, createdAt and nothing else.
UserResponse(body) == [f \in {"id", "email", "name", "createdAt"} |-> body[f]]

\* MeResponse reading the name under a key the document does not have.
MeResponse_wrong_key(user) ==
    Response(200,
             UserResponse([id |-> ObjectIdStr(user._id), email |-> user.email,
                           name |-> Null, createdAt |-> user.createdAt]),
             NoHeaders)

MeResponse(user) ==
    Response(200,
             UserResponse([id |-> ObjectIdStr(user._id), email |-> user.email,
                           name |-> user.name, createdAt |-> user.createdAt]),
             NoHeaders)

VerifyResponse(current_user) ==
    Response(200, [valid |-> TRUE, user_id |-> current_user.sub,
                   email |-> current_user.email], NoHeaders)

\* ------------------------------------------------------------------- store
None == [none |-> TRUE]

HasDefaultDb(url) == url = UrlWithDb

\* Collection.find_one: the first matching document in natural order, or None.
RECURSIVE find_one(_, _, _)
find_one(coll, field, value) ==
    IF coll = <<>> THEN None
    ELSE IF Head(coll)[field] = value THEN Head(coll)
    ELSE find_one(Tail(coll), field, value)

\* insert_one issued twice for the one document.
insert_one_twice(coll, doc, oid) ==
    Append(Append(coll, [_id |-> oid] @@ doc), [_id |-> oid] @@ doc)

\* Collection.insert_one: the driver assigns _id and appends the document.
insert_one(coll, doc, oid) ==
    Append(coll, [_id |-> oid] @@ doc)

\* get_database() returning: the first call of a process constructs the client.
GetDatabase(w) ==
    IF db[w] = 0
    THEN /\ client' = [client EXCEPT ![w] = constructed[w] + 1]
         /\ constructed' = [constructed EXCEPT ![w] = @ + 1]
         /\ db' = [db EXCEPT ![w] = constructed[w] + 1]
    ELSE UNCHANGED <<client, db, constructed>>

\* get_database() raising in client.get_database(): the URL names no default
\* database.  `client` is already assigned, `db` stays None.
GetDatabaseRaises(w) ==
    /\ db[w] = 0
    /\ ~HasDefaultDb(DATABASE_URL)
    /\ constructed[w] < MaxClients
    /\ client' = [client EXCEPT ![w] = constructed[w] + 1]
    /\ constructed' = [constructed EXCEPT ![w] = @ + 1]
    /\ UNCHANGED db

\* get_user_by_email querying a field that never holds an email.
get_user_by_email_wrong_field(email) == find_one(users, "name", email)

get_user_by_email(email) == find_one(users, "email", email)

\* user_data recording the provider the caller might later sign in with.
user_data_other_provider(email, hashed_password, name, now) ==
    [email |-> email, password |-> hashed_password, name |-> name,
     provider |-> "google", createdAt |-> now, updatedAt |-> now]

user_data(email, hashed_password, name, now) ==
    [email |-> email, password |-> hashed_password, name |-> name,
     provider |-> "email", createdAt |-> now, updatedAt |-> now]

create_user(email, hashed_password, name, now) ==
    insert_one(users, user_data(email, hashed_password, name, now), nextOid)

get_user_by_id(user_id) ==
    IF ObjectIdValid(user_id) THEN find_one(users, "_id", ObjectIdParse(user_id))
    ELSE None

\* get_user_by_id when find_one raises: the bare `except` returns None.
get_user_by_id_except == None

\* ---------------------------------------------------------------- requests
NoBody == [email |-> Null, password |-> Null, name |-> Null]

\* One completed exchange.  `outcome` names the branch of the handler that
\* produced the response; `reads` and `writes` count its find_one and
\* insert_one calls; `fault` says whether one of its store calls raised.
Exchange(op, outcome, reads, writes, fault, response) ==
    [op |-> op, outcome |-> outcome, reads |-> reads, writes |-> writes,
     fault |-> fault, response |-> response]

Pending == Cardinality({v \in Procs : pc[v] = "reg_insert"})

\* The caller keeps the token it was handed last.
Kept(tok) == {tok}

Presentable == issued \cup {Tamper(t) : t \in issued} \cup {MalformedToken}

Finish(w, exchange) ==
    /\ pc' = [pc EXCEPT ![w] = "idle"]
    /\ req' = [req EXCEPT ![w] = NoBody]
    /\ last' = exchange

\* ------------------------------------------------------------------ actions
\* POST /register with a body UserRegister rejects (password shorter than 6).
RegisterInvalid(w, e, p, n) ==
    /\ pc[w] = "idle"
    /\ Len(p) < 6
    /\ Finish(w, Exchange("register", "invalid_body", 0, 0, FALSE, ValidationErrorResponse))
    /\ UNCHANGED <<users, nextOid, nextSalt, clock, DATABASE_URL, client, db, constructed, issued>>

\* POST /register up to and including the duplicate check (auth.py 22-27).
RegisterRead(w, e, p, n) ==
    /\ pc[w] = "idle"
    /\ Len(p) >= 6
    /\ HasDefaultDb(DATABASE_URL)
    /\ GetDatabase(w)
    /\ LET existing_user == get_user_by_email(e) IN
         IF existing_user # None
         THEN Finish(w, Exchange("register", "duplicate", 1, 0, FALSE, EmailRegisteredResponse))
         ELSE /\ (nextOid - 1) + Pending < MaxUsers
              /\ pc' = [pc EXCEPT ![w] = "reg_insert"]
              /\ req' = [req EXCEPT ![w] = [email |-> e, password |-> p, name |-> n]]
              /\ UNCHANGED last
    /\ UNCHANGED <<users, nextOid, nextSalt, clock, DATABASE_URL, issued>>

\* POST /register from the hash to the response (auth.py 30-46).
RegisterInsert(w) ==
    /\ pc[w] = "reg_insert"
    /\ GetDatabase(w)
    /\ LET hashed_password == get_password_hash(req[w].password, nextSalt)
           coll == create_user(req[w].email, hashed_password, req[w].name, clock)
           new_user == coll[Len(coll)]
           access_token == create_access_token(
                               [sub |-> ObjectIdStr(new_user._id), email |-> req[w].email],
                               ACCESS_TOKEN_EXPIRE_MINUTES, clock)
       IN /\ users' = coll
          /\ nextOid' = nextOid + 1
          /\ nextSalt' = nextSalt + 1
          /\ issued' = Kept(access_token)
          /\ Finish(w, Exchange("register", "created", 1, Len(coll) - Len(users), FALSE,
                                TokenResponse(201, access_token)))
    /\ UNCHANGED <<clock, DATABASE_URL>>

\* POST /login (auth.py 55-79).
Login(w, e, p) ==
    /\ pc[w] = "idle"
    /\ HasDefaultDb(DATABASE_URL)
    /\ GetDatabase(w)
    /\ LET user == get_user_by_email(e) IN
          IF user = None
          THEN /\ Finish(w, Exchange("login", "no_user", 1, 0, FALSE, LoginNoUserResponse))
               /\ UNCHANGED issued
          ELSE IF ~verify_password(p, user.password)
          THEN /\ Finish(w, Exchange("login", "bad_password", 1, 0, FALSE,
                                     LoginBadPasswordResponse))
               /\ UNCHANGED issued
          ELSE LET access_token == create_access_token(
                                       [sub |-> ObjectIdStr(user._id), email |-> user.email],
                                       ACCESS_TOKEN_EXPIRE_MINUTES, clock)
               IN /\ Finish(w, Exchange("login", "token", 1, 0, FALSE,
                                        TokenResponse(200, access_token)))
                  /\ issued' = Kept(access_token)
    /\ UNCHANGED <<users, nextOid, nextSalt, clock, DATABASE_URL>>

\* GET /me (auth.py 83-101).
Me(w, tok) ==
    /\ pc[w] = "idle"
    /\ LET current_user == get_current_user(tok, clock) IN
         IF ~current_user.ok
         THEN /\ Finish(w, Exchange("me", "bad_token", 0, 0, FALSE, CredentialsResponse))
              /\ UNCHANGED <<client, db, constructed>>
         ELSE /\ HasDefaultDb(DATABASE_URL)
              /\ GetDatabase(w)
              /\ LET user == get_user_by_id(current_user.sub) IN
                    IF user = None
                    THEN Finish(w, Exchange("me", "not_found", 1, 0, FALSE,
                                            UserNotFoundResponse))
                    ELSE Finish(w, Exchange("me", "user", 1, 0, FALSE, MeResponse(user)))
    /\ UNCHANGED <<users, nextOid, nextSalt, clock, DATABASE_URL, issued>>

\* POST /verify (auth.py 105-113).
Verify(w, tok) ==
    /\ pc[w] = "idle"
    /\ LET current_user == get_current_user(tok, clock) IN
          IF ~current_user.ok
          THEN Finish(w, Exchange("verify", "bad_token", 0, 0, FALSE, CredentialsResponse))
          ELSE Finish(w, Exchange("verify", "valid", 0, 0, FALSE,
                                  VerifyResponse(current_user)))
    /\ UNCHANGED <<users, nextOid, nextSalt, clock, DATABASE_URL, client, db, constructed, issued>>

\* Time passes.
Tick ==
    /\ clock < MaxClock
    /\ clock' = clock + 1
    /\ UNCHANGED <<users, nextOid, nextSalt, DATABASE_URL, client, db, constructed, pc, req, last, issued>>

\* ----------------------------------------------- store failures (environment)
\* A store call of the handler raises: get_database() because the URL names no
\* default database, or find_one / insert_one because the server cannot be
\* reached in time.  Nothing in auth.py catches it: the framework answers 500.

\* POST /register, the lookup raises.
RegisterReadFault(w, e, p, n) ==
    /\ pc[w] = "idle"
    /\ Len(p) >= 6
    /\ \/ /\ GetDatabaseRaises(w)
          /\ Finish(w, Exchange("register", "store_error", 0, 0, TRUE, InternalServerError))
       \/ /\ HasDefaultDb(DATABASE_URL)
          /\ GetDatabase(w)
          /\ Finish(w, Exchange("register", "store_error", 1, 0, TRUE, InternalServerError))
    /\ UNCHANGED <<users, nextOid, nextSalt, clock, DATABASE_URL, issued>>

\* POST /register, insert_one raises; the server may have applied the write.
RegisterInsertFault(w, applied) ==
    /\ pc[w] = "reg_insert"
    /\ GetDatabase(w)
    /\ LET hashed_password == get_password_hash(req[w].password, nextSalt)
           coll == create_user(req[w].email, hashed_password, req[w].name, clock)
       IN /\ users' = IF applied THEN coll ELSE users
          /\ nextOid' = nextOid + 1
          /\ nextSalt' = nextSalt + 1
          /\ Finish(w, Exchange("register", "store_error", 1, 1, TRUE, InternalServerError))
    /\ UNCHANGED <<clock, DATABASE_URL, issued>>

\* POST /login, the lookup raises.
LoginFault(w, e, p) ==
    /\ pc[w] = "idle"
    /\ \/ /\ GetDatabaseRaises(w)
          /\ Finish(w, Exchange("login", "store_error", 0, 0, TRUE, InternalServerError))
       \/ /\ HasDefaultDb(DATABASE_URL)
          /\ GetDatabase(w)
          /\ Finish(w, Exchange("login", "store_error", 1, 0, TRUE, InternalServerError))
    /\ UNCHANGED <<users, nextOid, nextSalt, clock, DATABASE_URL, issued>>

\* GET /me with a verified token, the lookup raises.  get_database() is outside
\* the try of get_user_by_id, find_one is inside it.
MeFault(w, tok) ==
    /\ pc[w] = "idle"
    /\ get_current_user(tok, clock).ok
    /\ \/ /\ GetDatabaseRaises(w)
          /\ Finish(w, Exchange("me", "store_error", 0, 0, TRUE, InternalServerError))
       \/ /\ HasDefaultDb(DATABASE_URL)
          /\ GetDatabase(w)
          /\ LET user == get_user_by_id_except IN
                IF user = None
                THEN Finish(w, Exchange("me", "not_found", 1, 0, TRUE, UserNotFoundResponse))
                ELSE Finish(w, Exchange("me", "user", 1, 0, TRUE, MeResponse(user)))
    /\ UNCHANGED <<users, nextOid, nextSalt, clock, DATABASE_URL, issued>>

\* A document is removed from the collection by something other than this
\* service (the service itself has no delete path).
ExternalDelete(i) ==
    /\ i \in 1..Len(users)
    /\ users' = SubSeq(users, 1, i - 1) \o SubSeq(users, i + 1, Len(users))
    /\ UNCHANGED <<nextOid, nextSalt, clock, DATABASE_URL, client, db, constructed, pc, req, last, issued>>

\* ------------------------------------------------------------ specification
Init ==
    /\ users = <<>>
    /\ nextOid = 1
    /\ nextSalt = 1
    /\ clock = 0
    /\ DATABASE_URL = UrlWithDb
    /\ client = [w \in Procs |-> 0]
    /\ db = [w \in Procs |-> 0]
    /\ constructed = [w \in Procs |-> 0]
    /\ pc = [w \in Procs |-> "idle"]
    /\ req = [w \in Procs |-> NoBody]
    /\ last = Exchange("none", "none", 0, 0, FALSE, NoResponse)
    /\ issued = {}

Next ==
    \/ \E w \in Procs, e \in Emails, p \in Passwords, n \in Names : RegisterInvalid(w, e, p, n)
    \/ \E w \in Procs, e \in Emails, p \in Passwords, n \in Names : RegisterRead(w, e, p, n)
    \/ \E w \in Procs : RegisterInsert(w)
    \/ \E w \in Procs, e \in Emails, p \in Passwords : Login(w, e, p)
    \/ \E w \in Procs, tok \in Presentable : Me(w, tok)
    \/ \E w \in Procs, tok \in Presentable : Verify(w, tok)
    \/ Tick

Spec == Init /\ [][Next]_vars

\* The service with an unreliable store and a collection others can change.
InitFault ==
    /\ users = <<>>
    /\ nextOid = 1
    /\ nextSalt = 1
    /\ clock = 0
    /\ DATABASE_URL \in {UrlWithDb, UrlNoDb}
    /\ client = [w \in Procs |-> 0]
    /\ db = [w \in Procs |-> 0]
    /\ constructed = [w \in Procs |-> 0]
    /\ pc = [w \in Procs |-> "idle"]
    /\ req = [w \in Procs |-> NoBody]
    /\ last = Exchange("none", "none", 0, 0, FALSE, NoResponse)
    /\ issued = {}

NextFault ==
    \/ Next
    \/ \E w \in Procs, e \in Emails, p \in Passwords, n \in Names : RegisterReadFault(w, e, p, n)
    \/ \E w \in Procs, applied \in BOOLEAN : RegisterInsertFault(w, applied)
    \/ \E w \in Procs, e \in Emails, p \in Passwords : LoginFault(w, e, p)
    \/ \E w \in Procs, tok \in Presentable : MeFault(w, tok)
    \/ \E i \in 1..MaxUsers : ExternalDelete(i)

SpecFault == InitFault /\ [][NextFault]_vars

\* ================================================================== claims
Registered(e) == \E i \in 1..Len(users) : users[i].email = e

\* C1: no two User documents have the same email, in every state reachable by
\* interleaved /register requests (lookup, then later insert).
C1_EmailUnique ==
    \A i, j \in 1..Len(users) : users[i].email = users[j].email => i = j

\* C2: a /register for an email that an earlier /register has already
\* created a document for answers 400 "Email already registered", hands out no
\* token and leaves the collection as it was.
C2_DuplicateRejected ==
    [][\A w \in Procs, e \in Emails, p \in Passwords, n \in Names :
          (RegisterRead(w, e, p, n) /\ Registered(e)) =>
              /\ last'.op = "register"
              /\ last'.response.status = 400
              /\ last'.response.body = [detail |-> "Email already registered"]
              /\ pc'[w] = "idle"
              /\ users' = users
              /\ issued' = issued]_vars

C2_Witness ==
    /\ last.op = "register"
    /\ last.outcome = "duplicate"
    /\ Len(users) >= 1

\* C3: after a successful /register(email, password), every /login with that
\* email and password answers 200 with a token whose subject is the id of the
\* document that /register created and whose email is the stored email.
C3_LoginAfterRegister ==
    [][\A w \in Procs, e \in Emails, p \in Passwords :
          Login(w, e, p) =>
              \A i \in 1..Len(users) :
                  (users[i].email = e /\ verify_password(p, users[i].password)) =>
                      /\ last'.response.status = 200
                      /\ last'.response.body.access_token.sub = ObjectIdStr(users[i]._id)
                      /\ last'.response.body.access_token.email = users[i].email]_vars

\* C4: a /login that fails because the email has no document and a /login that
\* fails because the password is wrong give the caller one and the same
\* response: 401, "Incorrect email or password", WWW-Authenticate: Bearer.
C4_SameLoginFailure ==
    (last.op = "login" /\ last.outcome \in {"no_user", "bad_password"}) =>
        last.response = [status |-> 401,
                         body |-> [detail |-> "Incorrect email or password"],
                         headers |-> {<<"WWW-Authenticate", "Bearer">>}]

C4_Witness ==
    /\ last.op = "login"
    /\ last.outcome = "bad_password"
    /\ last.response.status = 401

\* C5: /me and /verify, given a token that verifies, answer 404 whenever no
\* document has the token's subject as its id.
C5_IdentifyLooksUp ==
    [][\A w \in Procs, tok \in Presentable :
          ( /\ Me(w, tok) \/ Verify(w, tok)
            /\ get_current_user(tok, clock).ok
            /\ get_user_by_id(tok.sub) = None ) =>
              last'.response.status = 404]_vars

\* C6: /login, /me and /verify leave the collection unchanged and make no
\* insert; a /register that answers 201 made one find_one and one insert_one
\* and added one document; a /register that answers 400 made no insert.
C6_StoreEffects ==
    [][ /\ last'.op \in {"login", "me", "verify"} =>
              (users' = users /\ last'.writes = 0)
        /\ users' # users =>
              /\ last'.op = "register"
              /\ last'.response.status = 201
              /\ Len(users') = Len(users) + 1
        /\ last'.response.status = 201 =>
              (last'.op = "register" /\ last'.reads = 1 /\ last'.writes = 1)
        /\ last'.response.status = 400 =>
              (last'.op = "register" /\ last'.writes = 0)
        /\ (last'.response.status = 400 /\ last' # last) => users' = users ]_vars

C6_Witness ==
    /\ last.op = "register"
    /\ last.response.status = 201
    /\ last.reads = 1
    /\ last.writes = 1
    /\ Len(users) = 2

\* The field names a response may carry.  The digest lives in the document's
\* "password" field only; a response is free of it when it has no such field
\* and its token, if any, has the token's five fields and no other.
DigestFree(r, coll) ==
    /\ DOMAIN r.body \subseteq {"detail", "access_token", "token_type", "id", "email",
                                "name", "createdAt", "valid", "user_id"}
    /\ "access_token" \in DOMAIN r.body =>
          /\ DOMAIN r.body.access_token = {"sub", "email", "exp", "iat", "sig"}
          /\ \A i \in 1..Len(coll) : r.body.access_token # coll[i].password

\* C7: a 200 from /me is exactly {id, email, name, createdAt} of the document
\* whose id is the token's subject, and no response of any operation carries
\* the stored password digest.
C7_PublicProjection ==
    [][ /\ \A w \in Procs, tok \in Presentable :
              (last'.op = "me" /\ last'.response.status = 200 /\ pc[w] = "idle"
                 /\ Me(w, tok)) =>
                  \E i \in 1..Len(users) :
                      /\ ObjectIdStr(users[i]._id) = tok.sub
                      /\ last'.response.body =
                             [id |-> tok.sub, email |-> users[i].email,
                              name |-> users[i].name, createdAt |-> users[i].createdAt]
        /\ DigestFree(last'.response, users') ]_vars

C7_Witness ==
    /\ last.op = "me"
    /\ last.outcome = "user"
    /\ last.response.status = 200
    /\ last.response.body.name = "Ann"

\* C8: a process constructs its MongoClient at most once, whatever happened
\* to its earlier get_database calls.
C8_ClientOnce == \A w \in Procs : constructed[w] <= 1

\* C9: an exchange in which a store call raised is answered as a server-side
\* failure the caller can retry (5xx); in particular never as 404.
C9_StoreUnavailable ==
    last.fault => last.response.status \in 500..599

\* C10: the collection only grows, by one document at a time and only in
\* /register; no document ever changes or disappears; every document has
\* provider = "email".
C10_AppendOnly ==
    [][ /\ Len(users') >= Len(users)
        /\ SubSeq(users', 1, Len(users)) = users
        /\ users' # users =>
              /\ Len(users') = Len(users) + 1
              /\ \E w \in Procs : RegisterInsert(w)
        /\ \A i \in 1..Len(users') : users'[i].provider = "email" ]_vars

C10_Witness ==
    /\ Len(users) = 2
    /\ last.op = "me"
    /\ last.outcome = "user"
====
